---- MODULE Spec2Model ----
(***************************************************************************)
(* Facility allocation notebook (examples/LP/optimize.ipynb).              *)
(*                                                                         *)
(* The notebook builds ONE global solver model m (flow variables x, open   *)
(* indicators z, three families of constraints) and re-optimizes it in     *)
(* place: optimize(fixed_cost) rebuilds the objective and solves,          *)
(* optimal_DC_num(fixed_cost) solves and counts the locations that ship,   *)
(* and two top-level cells extract / print the global set `opened`.        *)
(*                                                                         *)
(* The solver itself is a closed-source backend.  It is modelled by its    *)
(* contract: a completed solve of a feasible model ends OPTIMAL with SOME  *)
(* optimal assignment (a nondeterministic choice among all of them), a     *)
(* completed solve of an infeasible model ends INFEASIBLE or INF_OR_UNBD,  *)
(* and any solve may be cut short (INTERRUPTED stands for every status     *)
(* that is neither optimal nor infeasible/unbounded), in which case no     *)
(* assignment is proven optimal.  Arithmetic is exact: the         *)
(* backend's floating-point tolerances are not modelled.  Continuous flows *)
(* are enumerated on the integer grid 0..MaxDemand; with integer data the  *)
(* optimal value is attained on that grid.                                 *)
(***************************************************************************)
EXTENDS Integers, FiniteSets, Sequences, TLC

(***************************************************************************)
(* Bounds of the model.                                                    *)
(***************************************************************************)
N == 2              \* rows of the data file (locations)
MaxCost == 2        \* largest off-diagonal transport cost in the data file
SmallCap == 1       \* the finite capacity tried besides HUGE_CONSTANT
MaxDemand == 2      \* largest demand per delivery address; also the flow grid
MaxF == 4           \* largest fixed cost passed to optimize

(***************************************************************************)
(* Program constants.  HUGE_CONSTANT is 10^12 in the notebook; TLC's       *)
(* integers are 32 bit, so it is written 10^6 here.  Its only role is to   *)
(* exceed every sum of flows, which it does for either value.              *)
(***************************************************************************)
HUGE_CONSTANT == 1000000
Dash == -1          \* the '-' placeholder of the data file

M == N
DC == 0 .. (N - 1)
DA == 0 .. (M - 1)
arcs == DC \X DA
city_names == [i \in DC |-> <<"city", i>>]

FixedCosts == 0 .. MaxF
CapValues == {SmallCap, HUGE_CONSTANT}
FlowValues == 0 .. MaxDemand

\* Data files: '-' on the diagonal, a positive cost (a distance) elsewhere.
DataFiles == {d \in [arcs -> (1 .. MaxCost) \cup {Dash}] :
                 \A a \in arcs : (d[a] = Dash) <=> (a[1] = a[2])}

\* data.replace('-', 1)
replace(df, old, new) == [a \in DOMAIN df |-> IF df[a] = old THEN new ELSE df[a]]

\* c = dict(((i,j), arr[i][j]) ...) after data.replace('-', 1, inplace=True)
LoadCostsZeroSentinel(df) == replace(df, Dash, 0)
LoadCosts(df) == replace(df, Dash, 1)

RECURSIVE SumTo(_, _)
SumTo(f, k) == IF k < 0 THEN 0 ELSE f[k] + SumTo(f, k - 1)

\* quicksum(f[k] for k in range(n))
quicksum(f, n) == SumTo(f, n - 1)

(***************************************************************************)
(* The solver model m: variables, constraints, objective.                  *)
(***************************************************************************)
\* an assignment of the variables: x[i,j] >= 0 continuous, z[i] binary
Assignments == [x : [arcs -> FlowValues], z : [DC -> {0, 1}]]
NoSolution == [x |-> [a \in arcs |-> 0 - 1], z |-> [i \in DC |-> 0 - 1]]

OutFlow(sx, i) == quicksum([j \in DA |-> sx[<<i, j>>]], M)
InFlow(sx, j) == quicksum([i \in DC |-> sx[<<i, j>>]], N)

\* m.addConstrs(quicksum(x[i,j] for j in DA) <= HUGE_CONSTANT * z[i] for i in DC)
LinkingWithoutIndicator(s) == \A i \in DC : OutFlow(s.x, i) <= HUGE_CONSTANT
LinkingConstr(s) == \A i \in DC : OutFlow(s.x, i) <= HUGE_CONSTANT * s.z[i]

\* m.addConstrs(quicksum(x[i,j] for i in DC) >= D[j] for j in DA)
DemandAsUpperBound(s, Dv) == \A j \in DA : InFlow(s.x, j) <= Dv[j]
DemandConstr(s, Dv) == \A j \in DA : InFlow(s.x, j) >= Dv[j]

\* m.addConstrs(quicksum(x[i,j] for j in DA) <= S[i] for i in DC)
CapacityDropped(s, Sv) == TRUE
CapacityConstr(s, Sv) == \A i \in DC : OutFlow(s.x, i) <= Sv[i]

\* a set, listed once (an enumerated copy that is not filtered again on each use)
Listed(T) == {e : e \in T}

\* the assignments that satisfy the constraints added at declaration, which
\* mention no input data
Linked == Listed({s \in Assignments : LinkingConstr(s)})

Feasible(s, Sv, Dv) == LinkingConstr(s) /\ DemandConstr(s, Dv) /\ CapacityConstr(s, Sv)
FeasibleSet(Sv, Dv) == {s \in Linked : DemandConstr(s, Dv) /\ CapacityConstr(s, Sv)}

\* FeasibleSet, tabulated once for the capacity and demand vectors the model draws
FeasibleTable == [k \in [DC -> CapValues] \X [DA -> 0 .. MaxDemand] |-> Listed(FeasibleSet(k[1], k[2]))]
FeasibleOf(Sv, Dv) ==
    IF <<Sv, Dv>> \in DOMAIN FeasibleTable THEN FeasibleTable[<<Sv, Dv>>] ELSE FeasibleSet(Sv, Dv)

\* value of a linear expression under an assignment
RECURSIVE DotArcs(_, _, _)
DotArcs(w, v, k) ==
    IF k < 0 THEN 0
    ELSE w[<<k \div M, k % M>>] * v[<<k \div M, k % M>>] + DotArcs(w, v, k - 1)
RECURSIVE DotDC(_, _, _)
DotDC(w, v, k) == IF k < 0 THEN 0 ELSE w[k] * v[k] + DotDC(w, v, k - 1)
ObjVal(obj, s) == DotArcs(obj.x, s.x, N * M - 1) + DotDC(obj.z, s.z, N - 1)

Min(vals) == CHOOSE v \in vals : \A w \in vals : v <= w

\* m.optimize() run to completion with sense GRB.MINIMIZE: every assignment
\* the backend may report as optimal
OptimalSet(obj, Sv, Dv) ==
    LET feas == FeasibleOf(Sv, Dv)
        best == Min({ObjVal(obj, s) : s \in feas})
    IN  IF feas = {} THEN {} ELSE Listed({s \in feas : ObjVal(obj, s) = best})

\* obj = LinExpr(0.0)
LinExpr0 == [x |-> [a \in arcs |-> 0], z |-> [i \in DC |-> 0]]
\* obj.addTerms(coeffs, vars): adds the terms to the expression
addTermsX(obj, coeffs) == [obj EXCEPT !.x = [a \in arcs |-> obj.x[a] + coeffs[a]]]
addTermsZ(obj, coeffs) == [obj EXCEPT !.z = [i \in DC |-> obj.z[i] + coeffs[i]]]

\* m.setObjective(obj, GRB.MINIMIZE): the model's objective becomes obj
setObjectiveAccumulate(old, obj) ==
    [x |-> [a \in arcs |-> old.x[a] + obj.x[a]], z |-> [i \in DC |-> old.z[i] + obj.z[i]]]
setObjective(old, obj) == obj

\* objective coefficients at declaration: addVar(lb=0, ...) gives x obj 0.0,
\* addVar(0.0, 1.0, 1.0, GRB.BINARY, ...) gives z obj 1.0
DeclaredObjective == [x |-> [a \in arcs |-> 0], z |-> [i \in DC |-> 1]]

\* the objective optimize(fixed_cost) hands to the solver
BuildObjectiveWithoutFixedCost(cv, fixed_cost) == addTermsX(LinExpr0, cv)
BuildObjective(cv, fixed_cost) ==
    LET F == [i \in DC |-> fixed_cost * 1]
    IN  addTermsZ(addTermsX(LinExpr0, cv), F)

\* The backend's answers, tabulated once for every input the model draws and
\* keyed by the instance flattened to a tuple of numbers.  Solve is
\* OptimalSet, looked up when the instance is in the table.
Key(obj, Sv, Dv) ==
    [k \in 1 .. (N * M) |-> obj.x[<<(k - 1) \div M, (k - 1) % M>>]]
        \o [k \in 1 .. N |-> obj.z[k - 1]]
        \o [k \in 1 .. N |-> Sv[k - 1]]
        \o [k \in 1 .. M |-> Dv[k - 1]]
Instances ==
    {Key(BuildObjective(LoadCosts(d), F), Sv, Dv) :
        d \in DataFiles, F \in FixedCosts, Sv \in [DC -> CapValues], Dv \in [DA -> 0 .. MaxDemand]}
OptimalTable ==
    [k \in Instances |->
        OptimalSet([x |-> [a \in arcs |-> k[a[1] * M + a[2] + 1]],
                    z |-> [i \in DC |-> k[N * M + i + 1]]],
                   [i \in DC |-> k[N * M + N + i + 1]],
                   [j \in DA |-> k[N * M + 2 * N + j + 1]])]
Solve(obj, Sv, Dv) ==
    IF Key(obj, Sv, Dv) \in Instances THEN OptimalTable[Key(obj, Sv, Dv)]
    ELSE OptimalSet(obj, Sv, Dv)

\* result extraction: locations with some strictly positive outbound flow
ExtractOpenedDestinations(sx) == {city_names[a[2]] : a \in {b \in arcs : sx[b] > 0}}
ExtractOpened(sx) == {city_names[a[1]] : a \in {b \in arcs : sx[b] > 0}}

InfeasibleStatuses == {"INFEASIBLE", "INF_OR_UNBD"}
InconclusiveStatuses == {"INTERRUPTED"}

None == [kind |-> "None", val |-> 0]
Count(n) == [kind |-> "int", val |-> n]
Undefined == [kind |-> "undefined", val |-> {}]
SetVal(s) == [kind |-> "set", val |-> s]

\* return value of optimal_DC_num once optimize has run
ReturnZeroWhenNotOptimal(st, sx) ==
    IF st = "OPTIMAL" THEN Count(Cardinality(ExtractOpened(sx))) ELSE Count(0)
optimal_DC_num_return(st, sx) ==
    IF st = "OPTIMAL" THEN Count(Cardinality(ExtractOpened(sx))) ELSE None

VARIABLES
    data,       \* the data file as read: costs, '-' on the diagonal
    c,          \* cost dictionary (i,j) -> cost
    S,          \* capacity per DC
    D,          \* demand per DA
    objective,  \* objective coefficients held by m
    status,     \* m.status
    solution,   \* variable values held by m after the last solve
    opened,     \* the notebook's global `opened`
    call,       \* the last cell that solved: kind, fixed_cost, value returned / printed
    reused      \* the last solve ran on a model already optimized for another fixed cost

vars == <<data, c, S, D, objective, status, solution, opened, call, reused>>

NoCall == [kind |-> "none", fixed_cost |-> 0, out |-> None]

\* the model m and the notebook globals once the construction cells have run
Built ==
    /\ objective = DeclaredObjective
    /\ status = "LOADED"
    /\ solution = NoSolution
    /\ opened = Undefined
    /\ call = NoCall
    /\ reused = FALSE

\* The notebook as written: S = HUGE_CONSTANT * np.ones(N),
\* D = FIXED_DEMAND * np.ones(M), any data file, any value of FIXED_DEMAND.
Init ==
    /\ data \in DataFiles
    /\ c = LoadCosts(data)
    /\ S = [i \in DC |-> HUGE_CONSTANT * 1]
    /\ \E FIXED_DEMAND \in 0 .. MaxDemand : D = [j \in DA |-> FIXED_DEMAND * 1]
    /\ Built

\* The same model over every capacity vector and every demand vector.
InitInputs ==
    /\ data \in DataFiles
    /\ c = LoadCosts(data)
    /\ S \in [DC -> CapValues]
    /\ D \in [DA -> 0 .. MaxDemand]
    /\ Built

(***************************************************************************)
(* optimize(fixed_cost): rebuild the objective, set it, solve.  The        *)
(* outcome of the solve is the pair (status', solution').                  *)
(***************************************************************************)
optimize(fixed_cost) ==
    /\ objective' = setObjective(objective, BuildObjective(c, fixed_cost))
    /\ LET opt == Solve(objective', S, D)
       IN  \/ /\ opt # {}
              /\ status' = "OPTIMAL"
              /\ solution' \in opt
           \/ /\ opt = {}
              /\ status' \in InfeasibleStatuses
              /\ solution' = NoSolution
           \/ /\ status' \in InconclusiveStatuses
              /\ solution' = NoSolution
    /\ reused' = (call.kind # "none" /\ call.fixed_cost # fixed_cost)
    /\ UNCHANGED <<data, c, S, D>>

\* print(optimal_DC_num(fixed_cost)): one line of the sweep cell
SweepCall ==
    \E fixed_cost \in FixedCosts :
        /\ optimize(fixed_cost)
        /\ call' = [kind |-> "sweep", fixed_cost |-> fixed_cost,
                    out |-> optimal_DC_num_return(status', solution'.x)]
        /\ UNCHANGED opened

\* the top-level extraction cell: opened = set(); fill it when OPTIMAL
ExtractCell ==
    /\ opened' = IF status = "OPTIMAL" THEN SetVal(ExtractOpened(solution.x)) ELSE SetVal({})
    /\ UNCHANGED <<data, c, S, D, objective, status, solution, call, reused>>

\* the report cell: optimize(F); if OPTIMAL: opened = set(), fill it; then
\* print(str(opened) + " DCs were opened"), a NameError when opened was
\* never assigned
ReportCell ==
    \E fixed_cost \in FixedCosts :
        /\ optimize(fixed_cost)
        /\ opened' = IF status' = "OPTIMAL" THEN SetVal(ExtractOpened(solution'.x)) ELSE opened
        /\ call' = [kind |-> "report", fixed_cost |-> fixed_cost, out |-> opened']

Next == SweepCall \/ ExtractCell \/ ReportCell

Spec == Init /\ [][Next]_vars

NextInputs == SweepCall

SpecInputs == InitInputs /\ [][NextInputs]_vars

TypeOK ==
    /\ status \in {"LOADED", "OPTIMAL"} \cup InfeasibleStatuses \cup InconclusiveStatuses
    /\ status = "OPTIMAL" => solution \in Assignments

(***************************************************************************)
(* Vocabulary of the properties.                                           *)
(***************************************************************************)
TotalDemand == quicksum(D, M)
TotalCapacity == quicksum(S, N)

\* the objective the specification states: sum c[i,j]*x[i,j] + F * sum z[i]
StatedObjective(cv, F) == [x |-> cv, z |-> [i \in DC |-> F]]

\* what a single solve of a freshly built model with fixed cost F may return
FreshOptimal(cv, F, Sv, Dv) == Solve(StatedObjective(cv, F), Sv, Dv)
CountOf(s) == Cardinality(ExtractOpened(s.x))

\* locations whose open indicator is 1
IndicatorOpened(sz) == {city_names[i] : i \in {k \in DC : sz[k] = 1}}

Swept == call.kind = "sweep"
Counted == Swept /\ call.out.kind = "int"

UniformDemand == \A j \in DA : D[j] = D[0]
Unbounded == \A i \in DC : S[i] = HUGE_CONSTANT

\* transport cost of serving every address from location i alone
SingleCost(cv, i) == quicksum([j \in DA |-> cv[<<i, j>>] * D[j]], M)
CheapestSingle(cv) == Min({SingleCost(cv, i) : i \in DC})

C3_InfeasibleNoResult ==
    (Swept /\ TotalDemand > TotalCapacity) =>
        /\ status # "OPTIMAL"
        /\ status \notin InconclusiveStatuses => status \in InfeasibleStatuses
        /\ solution = NoSolution
        /\ call.out = None
        /\ call.out # Count(0)
        /\ call.out.kind \notin {"int", "set"}

C3_Witness ==
    /\ Swept /\ TotalDemand > TotalCapacity
    /\ status \in InfeasibleStatuses

(***************************************************************************)
(* C4 (as stated).  An inconclusive solve is surfaced by optimal_DC_num as *)
(* an outcome that differs from the optimal outcome (a count) and from     *)
(* what it returns for an infeasible/unbounded solve.                      *)
(***************************************************************************)
C4_InconclusiveDistinct ==
    (Swept /\ status \in InconclusiveStatuses) =>
        /\ call.out.kind # "int"
        /\ \A st \in InfeasibleStatuses : call.out # optimal_DC_num_return(st, NoSolution.x)

(***************************************************************************)
(* C5.  Feasibility of every reported solution: in an OPTIMAL solution,    *)
(* for every location the outbound flow is at most capacity * open (zero   *)
(* when closed, at most capacity when open), every address receives at     *)
(* least its demand, every flow is non-negative and open is 0 or 1.        *)
(***************************************************************************)
C5_ReportedFeasible ==
    status = "OPTIMAL" =>
        /\ \A i \in DC : OutFlow(solution.x, i) <= S[i] * solution.z[i]
        /\ \A i \in DC : solution.z[i] \in {0, 1}
        /\ \A j \in DA : InFlow(solution.x, j) >= D[j]
        /\ \A a \in arcs : solution.x[a] >= 0

\* one location closed, the other shipping exactly its finite capacity
C5_Witness ==
    /\ status = "OPTIMAL"
    /\ \E i \in DC : solution.z[i] = 0
    /\ \E i \in DC : /\ solution.z[i] = 1
                     /\ S[i] < HUGE_CONSTANT
                     /\ OutFlow(solution.x, i) = S[i]

(***************************************************************************)
(* C6.  Agreement of the two definitions of opened: in an OPTIMAL solution *)
(* for a fixed cost F > 0 the locations with positive outbound flow are    *)
(* exactly those whose indicator is 1; in every feasible assignment, for   *)
(* any F, the former are among the latter (checked on the model as built,  *)
(* for every capacity and demand vector).                                  *)
(***************************************************************************)
C6_OpenedAgree ==
    /\ (status = "OPTIMAL" /\ call.fixed_cost > 0) =>
          ExtractOpened(solution.x) = IndicatorOpened(solution.z)
    /\ status = "LOADED" =>
          \A s \in FeasibleOf(S, D) : ExtractOpened(s.x) \subseteq IndicatorOpened(s.z)

\* F > 0, some location opened and some location closed
C6_Witness ==
    /\ status = "OPTIMAL" /\ call.fixed_cost > 0
    /\ Cardinality(ExtractOpened(solution.x)) = 1
    /\ Cardinality(IndicatorOpened(solution.z)) = 1

(***************************************************************************)
(* C7.  Non-empty result: when total demand is positive and the solve is   *)
(* OPTIMAL, the extracted set is non-empty and optimal_DC_num returns a    *)
(* count of at least 1, for every fixed cost F >= 0.                       *)
(***************************************************************************)
C7_NonEmpty ==
    (Swept /\ status = "OPTIMAL" /\ TotalDemand > 0) =>
        /\ ExtractOpened(solution.x) # {}
        /\ call.out.kind = "int"
        /\ call.out.val >= 1

\* demand at a single address, fixed cost 0
C7_Witness ==
    /\ Swept /\ status = "OPTIMAL"
    /\ TotalDemand = 1
    /\ call.fixed_cost = 0
    /\ call.out = Count(1)

(***************************************************************************)
(* C8.  Single-facility regime: with unbounded capacity and uniform        *)
(* positive demand, for a fixed cost above the transport cost of the       *)
(* cheapest single-location solution, optimal_DC_num returns 1, the one    *)
(* location that ships minimizes sum_j c[i,j]*D[j], and every address's    *)
(* demand is shipped from it.                                              *)
(***************************************************************************)
C8_SingleFacility ==
    (/\ Swept /\ status = "OPTIMAL"
     /\ Unbounded /\ UniformDemand /\ D[0] > 0
     /\ call.fixed_cost > CheapestSingle(c)) =>
        /\ call.out = Count(1)
        /\ \E i \in DC :
              /\ ExtractOpened(solution.x) = {city_names[i]}
              /\ solution.z = [k \in DC |-> IF k = i THEN 1 ELSE 0]
              /\ SingleCost(c, i) = CheapestSingle(c)
              /\ \A j \in DA : solution.x[<<i, j>>] >= D[j]
              /\ \A k \in DC \ {i} : \A j \in DA : solution.x[<<k, j>>] = 0

\* the regime is entered, and the locations are not equally cheap
C8_Witness ==
    /\ Swept /\ status = "OPTIMAL"
    /\ Unbounded /\ UniformDemand /\ D[0] > 0
    /\ call.fixed_cost > CheapestSingle(c)
    /\ \E i \in DC : SingleCost(c, i) > CheapestSingle(c)
    /\ call.out = Count(1)

(***************************************************************************)
(* C9 (as stated).  With uniform demand and capacity, the set of opened    *)
(* locations extracted from a solve with the diagonal at the sentinel 1 is *)
(* one that the same solve with the diagonal at 0 can give.                *)
(***************************************************************************)
OpenedOutcomes(cv, F, Sv, Dv) == {ExtractOpened(s.x) : s \in FreshOptimal(cv, F, Sv, Dv)}

\* the opened sets a solve can give when the loader substitutes 0 for '-',
\* capacity is unbounded and demand is uniform; tabulated per data file,
\* demand and fixed cost
ZeroSentinelOutcomes ==
    [k \in DataFiles \X (0 .. MaxDemand) \X (0 .. (MaxF + MaxDemand)) |->
        {ExtractOpened(s.x) :
            s \in OptimalSet(StatedObjective(LoadCostsZeroSentinel(k[1]), k[3]),
                             [i \in DC |-> HUGE_CONSTANT], [j \in DA |-> k[2]])}]

Regular == call.kind # "none" /\ status = "OPTIMAL" /\ UniformDemand /\ Unbounded

C9_SentinelSamePattern ==
    Regular => ExtractOpened(solution.x) \in ZeroSentinelOutcomes[<<data, D[0], call.fixed_cost>>]

(***************************************************************************)
(* What the sentinel does instead.  With uniform positive demand d,        *)
(* unbounded capacity and off-diagonal costs of at least 1, the sentinel   *)
(* acts as d added to the fixed cost: the opened sets a solve with         *)
(* diagonal 1 and fixed cost F can give are exactly those a solve with     *)
(* diagonal 0 and fixed cost F + d can give.                               *)
(***************************************************************************)
SentinelShiftsFixedCost ==
    (Regular /\ D[0] > 0) =>
        /\ OpenedOutcomes(c, call.fixed_cost, S, D)
              = ZeroSentinelOutcomes[<<data, D[0], call.fixed_cost + D[0]>>]
        /\ ExtractOpened(solution.x)
              \in ZeroSentinelOutcomes[<<data, D[0], call.fixed_cost + D[0]>>]

\* a solve with a single optimal opened set, which the diagonal-0 solve with
\* the same fixed cost cannot give
SentinelChangesPattern ==
    /\ Regular /\ D[0] > 0
    /\ ExtractOpened(solution.x) \notin ZeroSentinelOutcomes[<<data, D[0], call.fixed_cost>>]
    /\ Cardinality(OpenedOutcomes(c, call.fixed_cost, S, D)) = 1
    /\ Cardinality(ZeroSentinelOutcomes[<<data, D[0], call.fixed_cost>>]) = 1

(***************************************************************************)
(* C10 (as stated).  No stale report: the set the report cell prints is    *)
(* the set extracted from the solve it has just run; when that solve is    *)
(* not OPTIMAL the cell prints no opened set.                              *)
(***************************************************************************)
C10_NoStaleReport ==
    call.kind = "report" =>
        /\ status = "OPTIMAL" => call.out = SetVal(ExtractOpened(solution.x))
        /\ status # "OPTIMAL" => call.out.kind # "set"
====
